---- MODULE Spec2Model ----
(***************************************************************************)
(* Model of the idle-game server of src/app.py: the reconciliation         *)
(* function calculate_and_update_game_data and the request handlers that   *)
(* load a player's row, reconcile it, append to the action queue and save. *)
(*                                                                         *)
(* Time.  datetime values (the wall clock, last_logout_time) are counted   *)
(* in ticks, TicksPerSecond ticks to the second; the start_time, end_time  *)
(* and duration of a queue entry are whole seconds, as int(...timestamp()) *)
(* stores them.                                                            *)
(*                                                                         *)
(* Dictionaries.  A Python dict is a function whose DOMAIN is the set of   *)
(* keys present; d.get(k, default) is Get(d, k, default).                  *)
(***************************************************************************)
EXTENDS Integers, Sequences, FiniteSets, TLC

VARIABLES
    clock,      \* the server's wall clock (datetime.now), in ticks
    db,         \* the player's row of table users: last_logout_time, game_data
    user_data,  \* the handler's local user_data: the value
                \* calculate_and_update_game_data last returned when it is
                \* called on its own; one per request when two are in flight
    response,   \* what the last request was answered (one per request when
                \* two are in flight)
    nextId      \* number of action ids (uuid4) given out so far

vars == <<clock, db, user_data, response, nextId>>

----------------------------------------------------------------------------
(* Bounds of the model *)

TicksPerSecond == 2
MaxClock == 4
MaxEnqueues == 4
MaxQuantity == 2
MaxSampleQueue == 2
MaxInterleavedEnqueues == 3

(* Constants of the program *)

MaxQueueSize == 3
DefaultUnitTime == 60

\* Python None / JSON null where a number is expected
Null == -1000
\* Python None where a string is expected (a missing type or resource name),
\* also when it is used as a dict key
PyNone == "None"

----------------------------------------------------------------------------
(* Python dicts *)

EmptyDict == [k \in {} |-> 0]

Get(d, k, default) == IF k \in DOMAIN d THEN d[k] ELSE default

Put(d, k, v) == [x \in (DOMAIN d) \cup {k} |-> IF x = k THEN v ELSE d[x]]

\* d.setdefault(k, v)
SetDefault(d, k, v) == IF k \in DOMAIN d THEN d ELSE Put(d, k, v)

\* {**base, **over}: the keys of over win
Merge(base, over) == over @@ base

\* Python truthiness of a number-or-None
Truthy(v) == v # Null /\ v # 0

\* int(dt.timestamp()): a datetime in ticks to whole seconds
ToTimestamp(dt) == dt \div TicksPerSecond

\* datetime.fromtimestamp(ts, tz=utc): whole seconds to a datetime in ticks
FromTimestamp(ts) == ts * TicksPerSecond

----------------------------------------------------------------------------
(* calculate_and_update_game_data *)

\* lines 139-143: the elapsed time, clamped at zero (the code only prints it)
TimeElapsed(last_action_time, current_time) ==
    IF current_time - last_action_time < 0 THEN 0
    ELSE current_time - last_action_time

\* variant: line 160 asks only whether the key is there
HasEndTime_KeyPresent(action) == "end_time" \in DOMAIN action

\* line 160: if action_end_time_timestamp:
HasEndTime(action) == Truthy(Get(action, "end_time", Null))

\* variant: the comparison of line 163 made strict
IsDue_Exclusive(action, current_time) ==
    current_time > FromTimestamp(action.end_time)

\* variant: line 161's conversion of the timestamp left out
IsDue_RawTimestamp(action, current_time) ==
    current_time >= action.end_time

\* line 163: current_time >= action_end_time
IsDue(action, current_time) ==
    current_time >= FromTimestamp(action.end_time)

\* lines 172, 178, 185: resources[key] = resources.get(key, 0) + amount
Credit(game_data, key, amount) ==
    [game_data EXCEPT !.resources =
        Put(@, key, Get(@, key, 0) + amount)]

\* lines 188-196: the building_upgrade branch
UpgradeBuilding(game_data, action) ==
    LET building_id == Get(action, "building_id", PyNone)
        target_level == Get(action, "target_level", Null)
        buildings == Get(game_data, "buildings", EmptyDict)
        building == Get(buildings, building_id, EmptyDict)
    IN  Put(game_data, "buildings",
            Put(buildings, building_id, Put(building, "level", target_level)))

\* variant: an action of any other type is credited like a mining action
ApplyCompletion_CreditsAnyType(game_data, action) ==
    IF Get(action, "type", PyNone) = "building_upgrade"
    THEN UpgradeBuilding(game_data, action)
    ELSE Credit(game_data, Get(action, "resource_type", PyNone),
                Get(action, "amount", 0))

\* lines 169-198: the effect of one completed action, by its type
ApplyCompletion(game_data, action) ==
    LET type == Get(action, "type", PyNone)
        amount == Get(action, "amount", 0)
    IN  CASE type = "mining" ->
                Credit(game_data, Get(action, "resource_type", PyNone), amount)
          [] type = "farming" ->
                Credit(game_data, Get(action, "crop_type", PyNone), amount)
          [] type = "animal_husbandry" ->
                Credit(game_data, Get(action, "product_type", PyNone), amount)
          [] type = "building_upgrade" ->
                UpgradeBuilding(game_data, action)
          [] OTHER -> game_data

\* lines 158-205: the loop over a copy of scheduled_actions; acc holds
\* game_data, new_scheduled_actions and completed_actions_count
RECURSIVE ProcessActions(_, _, _)
ProcessActions(acc, actions, current_time) ==
    IF actions = <<>> THEN acc
    ELSE LET action == Head(actions) IN
         IF HasEndTime(action)
         THEN IF IsDue(action, current_time)
              THEN ProcessActions(
                       [acc EXCEPT
                           !.game_data = ApplyCompletion(@, action),
                           !.completed_actions_count = @ + 1],
                       Tail(actions), current_time)
              ELSE ProcessActions(
                       [acc EXCEPT !.new_scheduled_actions = Append(@, action)],
                       Tail(actions), current_time)
         ELSE ProcessActions(
                  [acc EXCEPT !.new_scheduled_actions = Append(@, action)],
                  Tail(actions), current_time)

\* lines 135-207: the locals at the end of the function
ReconcileLocals(data, current_time) ==
    LET game_data == SetDefault(
                         SetDefault(Get(data, "game_data", EmptyDict),
                                    "resources", EmptyDict),
                         "scheduled_actions", <<>>)
    IN  ProcessActions([game_data |-> game_data,
                        new_scheduled_actions |-> <<>>,
                        completed_actions_count |-> 0],
                       game_data.scheduled_actions, current_time)

\* variant: line 207 left out, the queue is not replaced by the entries kept
CalculateAndUpdateGameData_KeepQueue(data, current_time) ==
    [last_logout_time |-> current_time,
     game_data |-> ReconcileLocals(data, current_time).game_data]

\* variant: line 211 stores the elapsed time instead of the current time
CalculateAndUpdateGameData_StoresElapsed(data, current_time) ==
    LET locals == ReconcileLocals(data, current_time)
    IN  [last_logout_time |->
             TimeElapsed(data.last_logout_time, current_time),
         game_data |-> Put(locals.game_data, "scheduled_actions",
                           locals.new_scheduled_actions)]

\* lines 128-213: the user_data returned
CalculateAndUpdateGameData(data, current_time) ==
    LET locals == ReconcileLocals(data, current_time)
    IN  [last_logout_time |-> current_time,
         game_data |-> Put(locals.game_data, "scheduled_actions",
                           locals.new_scheduled_actions)]

----------------------------------------------------------------------------
(* Persistence and the catalog *)

\* the one registered player's row: username and id
DbUsername == "alice"
DbUserId == 1

\* the rows of table areas_detail, by areaname
AreasDetail ==
    [iron_mine   |-> [areaname |-> "iron_mine", time |-> 1, cost |-> 0,
                      product |-> [resource |-> "iron", amount |-> 1]],
     wheat_field |-> [areaname |-> "wheat_field", time |-> 2, cost |-> 0,
                      product |-> [resource |-> "wheat", amount |-> 1]]]

\* what a lookup that finds no row returns (None)
NoRow == [is_none |-> TRUE]

IsNone(row) == "is_none" \in DOMAIN row

\* lines 111-124
GetAreaDataFromDb(name) ==
    IF name \in DOMAIN AreasDetail THEN AreasDetail[name] ELSE NoRow

\* lines 95-109, for the one registered player
UserRowFound(username) == username = DbUsername

\* json.dumps of a dict key: None becomes "null"
JsonKey(k) == IF k = PyNone THEN "null" ELSE k

\* json.dumps then JSONB storage of a string-keyed object.  A None key and
\* a "null" key collide; JSONB keeps the last one written, which is the None
\* key (the "null" key came from the row loaded before, so it is older).
JsonObject(d) ==
    [j \in {JsonKey(k) : k \in DOMAIN d} |->
        IF j = "null" /\ PyNone \in DOMAIN d THEN d[PyNone] ELSE d[j]]

\* line 86: json.dumps(game_data), as read back from the JSONB column
JsonGameData(game_data) ==
    [k \in DOMAIN game_data |->
        IF k \in {"resources", "buildings"} THEN JsonObject(game_data[k])
        ELSE game_data[k]]

----------------------------------------------------------------------------
(* add_actions_to_queue *)

RequestKeys == {"username", "user_id", "action_name", "quantity"}

\* line 328
SpecificParams(data) == [k \in (DOMAIN data) \ RequestKeys |-> data[k]]

\* line 330: all([username, user_id, action_name, isinstance(quantity, int)
\* and quantity > 0]); a quantity that is no int is Null here
RequestValid(data) ==
    /\ Get(data, "username", "") # ""
    /\ Truthy(Get(data, "user_id", Null))
    /\ Get(data, "action_name", "") # ""
    /\ Get(data, "quantity", Null) # Null
    /\ Get(data, "quantity", Null) > 0

\* line 334: not user_data or user_data['id'] != user_id
UserVerified(data) ==
    UserRowFound(data.username) /\ data.user_id = DbUserId

\* variant: the comparison of line 349 made strict
QueueFull_OffByOne(game_data) ==
    Len(Get(game_data, "scheduled_actions", <<>>)) > MaxQueueSize

\* variant: the check of lines 349-350 left out
QueueFull_Never(game_data) == FALSE

\* line 349
QueueFull(game_data) ==
    Len(Get(game_data, "scheduled_actions", <<>>)) >= MaxQueueSize

\* lines 355-357: the timestamp the new action starts at
LastActionEndTimeTimestamp(game_data, now) ==
    LET scheduled_actions == Get(game_data, "scheduled_actions", <<>>)
    IN  IF scheduled_actions # <<>>
        THEN Get(scheduled_actions[Len(scheduled_actions)], "end_time",
                 ToTimestamp(now))
        ELSE ToTimestamp(now)

\* line 362: area_data.get('time', 60) * quantity
ActualDurationSeconds(area_data, quantity) ==
    Get(area_data, "time", DefaultUnitTime) * quantity

\* lines 365-373: the entry; the request's other parameters are spread last
NewActionEntry(action_id, action_name, start_timestamp, duration, specific_params) ==
    Merge([action_id  |-> action_id,
           name       |-> action_name,
           start_time |-> start_timestamp,
           end_time   |-> start_timestamp + duration,
           duration   |-> duration,
           status     |-> "pending"],
          specific_params)

\* variant: the entry is appended twice
AppendAction_Twice(scheduled_actions, entry) ==
    Append(Append(scheduled_actions, entry), entry)

\* line 374: game_data['scheduled_actions'].append(new_action_entry)
AppendAction(scheduled_actions, entry) == Append(scheduled_actions, entry)

\* lines 323-400: what the handler answers and what it saves, for the row it
\* loaded, the clock read by calculate_and_update_game_data (now1) and the
\* clock read at line 355 (now2)
HandleAddActions(row, data, now1, now2, action_id, save_ok) ==
    IF ~RequestValid(data)
    THEN [status |-> 400, outcome |-> "InvalidRequest"]
    ELSE IF ~UserVerified(data)
    THEN [status |-> 401, outcome |-> "Unauthorized"]
    ELSE
    LET updated == CalculateAndUpdateGameData(row, now1)
        game_data == updated.game_data
        area_data == GetAreaDataFromDb(data.action_name)
        last_ts == LastActionEndTimeTimestamp(game_data, now2)
    IN  IF QueueFull(game_data)
        THEN [status |-> 500, outcome |-> "QueueFull",
              user_data |-> updated]
        ELSE IF last_ts = Null \/ IsNone(area_data)
        \* line 359 (fromtimestamp(None)) or line 362 (None.get) raises
        THEN [status |-> 500, outcome |-> "UnhandledException",
              user_data |-> updated]
        ELSE
        LET entry == NewActionEntry(action_id, data.action_name, last_ts,
                         ActualDurationSeconds(area_data, data.quantity),
                         SpecificParams(data))
            appended == [updated EXCEPT !.game_data.scheduled_actions =
                            AppendAction(@, entry)]
        IN  IF save_ok
            THEN [status |-> 200, outcome |-> "Added",
                  user_data |-> appended]
            ELSE [status |-> 500, outcome |-> "SaveFailed",
                  user_data |-> appended]

\* lines 72-93: the row after a successful save
SavedRow(user) ==
    [last_logout_time |-> user.last_logout_time,
     game_data |-> JsonGameData(user.game_data)]

----------------------------------------------------------------------------
(* The requests the model draws *)

NoParams == EmptyDict

\* action-specific parameters of a mining request
Mining == [type |-> "mining", resource_type |-> "iron", amount |-> 5]

EnqueueData(username, user_id, action_name, quantity, params) ==
    Merge(params, [username |-> username, user_id |-> user_id,
                   action_name |-> action_name, quantity |-> quantity])

\* the other parameters a request carries: a kind with its payload, or
\* parameters named like the fields the handler computes
RequestParams ==
    { Mining,
      [start_time |-> 0],
      [end_time |-> 1, type |-> "mining", resource_type |-> "iron",
       amount |-> -5],
      [end_time |-> Null] }

GoodRequests ==
    { EnqueueData(DbUsername, DbUserId, "iron_mine", q, NoParams) :
        q \in 1..MaxQuantity }
    \cup { EnqueueData(DbUsername, DbUserId, "iron_mine", 1, p) :
             p \in RequestParams }
    \cup { EnqueueData(DbUsername, DbUserId, "wheat_field", 1, NoParams) }

BadRequests ==
    { EnqueueData(DbUsername, DbUserId, "iron_mine", q, NoParams) :
        q \in {0, Null} }
    \cup { EnqueueData(DbUsername, DbUserId, n, 1, NoParams) :
             n \in {"", "unknown_area"} }
    \cup { EnqueueData(DbUsername, DbUserId + 1, "iron_mine", 1, NoParams) }

Requests == GoodRequests \cup BadRequests

----------------------------------------------------------------------------
(* The server: one registered player, requests handled one at a time *)

NewRow == [last_logout_time |-> 0, game_data |-> EmptyDict]

Init ==
    /\ clock = 0
    /\ db = NewRow
    /\ user_data = NewRow
    /\ response = [status |-> 201, outcome |-> "Registered"]
    /\ nextId = 0

\* time passes
Tick ==
    /\ clock < MaxClock
    /\ clock' = clock + 1
    /\ UNCHANGED <<db, user_data, response, nextId>>

\* the wall clock is set back (datetime.now is not monotonic)
ClockStepBack ==
    /\ clock > 0
    /\ clock' = clock - 1
    /\ UNCHANGED <<db, user_data, response, nextId>>

\* lines 389-398: the body of the 200 response
AddedResponse(data, game_data) ==
    [status |-> 200, outcome |-> "Added",
     added_count |-> data.quantity,
     action_name |-> data.action_name,
     total_in_queue |-> Len(game_data.scheduled_actions),
     current_executing_action |-> game_data.scheduled_actions[1],
     game_data |-> JsonGameData(game_data)]

\* POST /add_actions_to_queue, lines 321-400
AddActionsToQueue(data, save_ok) ==
    \E r \in {HandleAddActions(db, data, clock, clock, nextId + 1, save_ok)} :
        /\ r.outcome \in {"Added", "SaveFailed"} => nextId < MaxEnqueues
        /\ response' = IF r.outcome = "Added"
                       THEN AddedResponse(data, r.user_data.game_data)
                       ELSE [status |-> r.status, outcome |-> r.outcome]
        /\ db' = IF r.outcome = "Added" THEN SavedRow(r.user_data) ELSE db
        /\ nextId' = IF r.outcome = "Added" THEN nextId + 1 ELSE nextId
        /\ UNCHANGED <<clock, user_data>>

Next ==
    \/ Tick
    \/ \E data \in Requests, save_ok \in BOOLEAN :
          AddActionsToQueue(data, save_ok)

Spec == Init /\ [][Next]_vars

----------------------------------------------------------------------------
(* login, and the server with it *)

DbPassword == "secret"

\* the usernames and passwords a login request carries
LoginUsernames == {DbUsername, "bob", ""}
LoginPasswords == {DbPassword, "wrong", ""}

\* int(x) for the quotient x = n / d of integers, d > 0: toward zero
IntOfQuotient(n, d) == IF n >= 0 THEN n \div d ELSE -((-n) \div d)

\* lines 255-265: int(offline_duration_seconds * (1 + building_level * 0.5))
OfflineGold(last_logout_time, current_time, game_data) ==
    LET building_level ==
            Get(Get(game_data, "buildings", EmptyDict), "gold_mine_level", 0)
    IN  IntOfQuotient((current_time - last_logout_time) * (2 + building_level),
                      2 * TicksPerSecond)

\* lines 239-279: what login answers and what it saves.  The row's
\* game_data is returned and saved as loaded; only last_logout_time changes.
HandleLogin(row, username, password, now) ==
    IF username = "" \/ password = ""
    THEN [status |-> 400, outcome |-> "CredentialsRequired"]
    ELSE IF ~(UserRowFound(username) /\ password = DbPassword)
    THEN [status |-> 401, outcome |-> "InvalidCredentials"]
    ELSE
    LET game_data == Get(row, "game_data", EmptyDict)
    IN  [status |-> 200, outcome |-> "LoginSuccessful",
         user_id |-> DbUserId,
         username |-> username,
         offline_income |->
             [gold |-> IF row.last_logout_time # Null
                       THEN OfflineGold(row.last_logout_time, now, game_data)
                       ELSE 0],
         game_data |-> game_data,
         saves |-> row.last_logout_time # Null,
         user_data |-> [last_logout_time |-> now, game_data |-> game_data]]

\* POST /login, lines 237-279; the result of the save is not looked at
Login(username, password, save_ok) ==
    \E r \in {HandleLogin(db, username, password, clock)} :
        /\ response' = IF r.outcome = "LoginSuccessful"
                       THEN [k \in (DOMAIN r) \ {"saves", "user_data"} |-> r[k]]
                       ELSE r
        /\ db' = IF r.outcome = "LoginSuccessful" /\ r.saves /\ save_ok
                 THEN SavedRow(r.user_data)
                 ELSE db
        /\ UNCHANGED <<clock, user_data, nextId>>

\* the enqueue requests of the server with login
LoginSpecRequests ==
    { data \in GoodRequests : data.quantity = 1 } \cup
    { data \in BadRequests : data.action_name = "unknown_area" }

NextLogin ==
    \/ Tick
    \/ \E data \in LoginSpecRequests : AddActionsToQueue(data, TRUE)
    \/ \E username \in LoginUsernames, password \in LoginPasswords,
          save_ok \in BOOLEAN :
          Login(username, password, save_ok)

SpecLogin == Init /\ [][NextLogin]_vars

----------------------------------------------------------------------------
(* Two requests to /add_actions_to_queue in flight for the same player.    *)
(* The handler takes no lock: between its load (line 333), its work on the *)
(* loaded copy (lines 339-374) and its save (line 378) the other request   *)
(* may run.  Here user_data and response are indexed by the request.       *)

Handlers == {1, 2}

Idle == [pc |-> "idle"]

\* the requests sent: valid and of the registered player
InterleavedRequests ==
    { EnqueueData(DbUsername, DbUserId, "iron_mine", 1, Mining),
      EnqueueData(DbUsername, DbUserId, "wheat_field", 1, NoParams) }

InitInterleaved ==
    /\ clock = 0
    /\ db = NewRow
    /\ user_data = [h \in Handlers |-> Idle]
    /\ response = [h \in Handlers |-> [status |-> 0, outcome |-> "None"]]
    /\ nextId = 0

\* lines 323-337: the request is read and passes the checks, and the row
\* is loaded into the handler's user_data
LoadUser(h, data) ==
    /\ user_data[h].pc = "idle"
    /\ RequestValid(data) /\ UserVerified(data)
    /\ user_data' = [user_data EXCEPT
                        ![h] = [pc |-> "loaded", data |-> data, row |-> db]]
    /\ UNCHANGED <<clock, db, response, nextId>>

\* lines 339-374, on the copy loaded: reconcile, test the capacity, build
\* the entry and append it; the 500 answers of lines 350 and 359-362
\* end the request here
ReconcileAndAppend(h) ==
    /\ user_data[h].pc = "loaded"
    /\ \E r \in {HandleAddActions(user_data[h].row, user_data[h].data,
                                   clock, clock, nextId + 1, TRUE)} :
          IF r.outcome = "Added"
          THEN /\ nextId < MaxInterleavedEnqueues
               /\ user_data' = [user_data EXCEPT
                                   ![h] = [pc |-> "appended",
                                           data |-> user_data[h].data,
                                           user_data |-> r.user_data]]
               /\ nextId' = nextId + 1
               /\ UNCHANGED response
          ELSE /\ user_data' = [user_data EXCEPT ![h] = Idle]
               /\ response' = [response EXCEPT
                                  ![h] = [status |-> r.status,
                                          outcome |-> r.outcome]]
               /\ UNCHANGED nextId
    /\ UNCHANGED <<clock, db>>

\* lines 378-398: the whole row is written over the stored one and the
\* request is answered 200
SaveAndRespond(h) ==
    /\ user_data[h].pc = "appended"
    /\ db' = SavedRow(user_data[h].user_data)
    /\ response' = [response EXCEPT
                       ![h] = AddedResponse(user_data[h].data,
                                            user_data[h].user_data.game_data)]
    /\ user_data' = [user_data EXCEPT ![h] = Idle]
    /\ UNCHANGED <<clock, nextId>>

NextInterleaved ==
    \/ Tick
    \/ \E h \in Handlers, data \in InterleavedRequests : LoadUser(h, data)
    \/ \E h \in Handlers : ReconcileAndAppend(h)
    \/ \E h \in Handlers : SaveAndRespond(h)

SpecInterleaved == InitInterleaved /\ [][NextInterleaved]_vars

----------------------------------------------------------------------------
(* calculate_and_update_game_data as a function: any stored state, any time *)

SampleParams ==
    { [type |-> "mining", resource_type |-> "iron", amount |-> 5],
      [type |-> "farming", crop_type |-> "wheat", amount |-> 2],
      [type |-> "animal_husbandry", animal_type |-> "cow",
       product_type |-> "milk", amount |-> 3],
      [type |-> "building_upgrade", building_id |-> "hut", target_level |-> 2],
      [type |-> "crafting", amount |-> 1],
      [type |-> "mining", resource_type |-> "iron", amount |-> 5,
       end_time |-> 0] }

\* entries as add_actions_to_queue builds them, one with no end_time key and
\* one whose end_time is null
\* (a client can store any game_data through /save_game, lines 301-319)
SampleEntries ==
    { NewActionEntry(0, "iron_mine", 0, d, p) :
        d \in 1..MaxQuantity, p \in SampleParams }
    \cup { [action_id |-> 0, name |-> "iron_mine", type |-> "mining",
            resource_type |-> "iron", amount |-> 5, status |-> "pending"],
           [action_id |-> 0, name |-> "iron_mine", type |-> "mining",
            resource_type |-> "iron", amount |-> 5, status |-> "pending",
            start_time |-> 0, end_time |-> Null] }

\* uuid4: the ids of a queue's entries differ
WithIds(queue) ==
    [i \in 1..Len(queue) |-> Put(queue[i], "action_id", i)]

RECURSIVE SeqsUpTo(_, _)
SeqsUpTo(S, n) ==
    IF n = 0 THEN {<<>>}
    ELSE LET shorter == SeqsUpTo(S, n - 1)
         IN  shorter \cup {Append(q, e) : q \in shorter, e \in S}

SampleQueues == {WithIds(q) : q \in SeqsUpTo(SampleEntries, MaxSampleQueue)}

SampleGameData ==
    {EmptyDict}
    \cup { [resources |-> r, scheduled_actions |-> q] :
             r \in {EmptyDict, [iron |-> 1]}, q \in SampleQueues }
    \cup { [resources |-> [iron |-> 1], buildings |-> [hut |-> [level |-> 1]],
            scheduled_actions |-> q] : q \in SampleQueues }

InitReconcile ==
    /\ clock = 0
    /\ user_data \in [last_logout_time : {0, MaxClock},
                      game_data : SampleGameData]
    /\ db = NewRow
    /\ response = [completed_actions_count |-> 0]
    /\ nextId = 0

\* one call user_data = calculate_and_update_game_data(user_data)
Reconcile ==
    /\ user_data' = CalculateAndUpdateGameData(user_data, clock)
    /\ response' = [completed_actions_count |->
                      ReconcileLocals(user_data, clock).completed_actions_count]
    /\ UNCHANGED <<clock, db, nextId>>

NextReconcile == Tick \/ ClockStepBack \/ Reconcile

SpecReconcile == InitReconcile /\ [][NextReconcile]_vars

----------------------------------------------------------------------------
(* Reading a player state *)

GameDataOf(data) == Get(data, "game_data", EmptyDict)
QueueOf(data) == Get(GameDataOf(data), "scheduled_actions", <<>>)
ResourcesOf(data) == Get(GameDataOf(data), "resources", EmptyDict)
BuildingsOf(data) == Get(GameDataOf(data), "buildings", EmptyDict)

\* the entry carries an end time (neither missing, null nor 0) that is <= now
EndedBy(entry, now) ==
    /\ "end_time" \in DOMAIN entry
    /\ entry.end_time \notin {Null, 0}
    /\ entry.end_time * TicksPerSecond <= now

\* the entry carries an end time that is > now
EndsAfter(entry, now) ==
    /\ "end_time" \in DOMAIN entry
    /\ entry.end_time \notin {Null, 0}
    /\ entry.end_time * TicksPerSecond > now

CreditKinds == {"mining", "farming", "animal_husbandry"}

\* the resource a Mining, Farming or AnimalHusbandry entry produces
OutputResource(entry) ==
    CASE entry.type = "mining" -> Get(entry, "resource_type", PyNone)
      [] entry.type = "farming" -> Get(entry, "crop_type", PyNone)
      [] entry.type = "animal_husbandry" -> Get(entry, "product_type", PyNone)

Credits(entry, key) ==
    /\ Get(entry, "type", PyNone) \in CreditKinds
    /\ OutputResource(entry) = key

\* the amounts of the entries of queue that ended by now and produce key
RECURSIVE EndedAmount(_, _, _)
EndedAmount(queue, key, now) ==
    IF queue = <<>> THEN 0
    ELSE (IF EndedBy(Head(queue), now) /\ Credits(Head(queue), key)
          THEN Get(Head(queue), "amount", 0) ELSE 0)
         + EndedAmount(Tail(queue), key, now)

Ids(queue) == {queue[i].action_id : i \in 1..Len(queue)}

----------------------------------------------------------------------------
(* Claims about calculate_and_update_game_data, under SpecReconcile *)

\* C1: reconciliation is idempotent at a fixed time: reconciling, at the
\* same time, the state a reconcile call returned gives that state again
\* (same ledger, buildings, queue and checkpoint).
C1_ReconcileIdempotent ==
    [][Reconcile =>
        CalculateAndUpdateGameData(user_data', clock) = user_data']_vars

\* a call that resolved an entry and kept another has returned
C1_Witness ==
    /\ response.completed_actions_count >= 1
    /\ user_data.last_logout_time = clock
    /\ Len(QueueOf(user_data)) >= 1
    /\ ResourcesOf(user_data) # EmptyDict

\* C2: no negative income: a reconcile call whose now is earlier than the
\* state's checkpoint changes neither the ledger nor the buildings, whatever
\* the queue holds.
C2_NoChangeBeforeCheckpoint ==
    [][(Reconcile /\ clock < user_data.last_logout_time) =>
          /\ ResourcesOf(user_data') = ResourcesOf(user_data)
          /\ BuildingsOf(user_data') = BuildingsOf(user_data)]_vars

\* C6: a reconcile call at now resolves every entry whose end_time is <= now
\* (end_time = now included): a Mining, Farming or AnimalHusbandry entry
\* adds its amount to the ledger entry of its output resource (from 0 when
\* the key is absent), a BuildingUpgrade entry sets its building's level to
\* the target level, the entry leaves the queue, and the checkpoint is now.
C6_ResolutionCorrect ==
    [][Reconcile =>
        LET before == QueueOf(user_data)
            credited == {OutputResource(before[i]) :
                           i \in {j \in 1..Len(before) :
                                    /\ EndedBy(before[j], clock)
                                    /\ Get(before[j], "type", PyNone)
                                           \in CreditKinds}}
        IN  /\ DOMAIN ResourcesOf(user_data') =
                   (DOMAIN ResourcesOf(user_data)) \cup credited
            /\ \A key \in DOMAIN ResourcesOf(user_data') :
                   ResourcesOf(user_data')[key] =
                       Get(ResourcesOf(user_data), key, 0)
                       + EndedAmount(before, key, clock)
            /\ \A i \in 1..Len(before) :
                   EndedBy(before[i], clock) =>
                       before[i].action_id \notin Ids(QueueOf(user_data'))
            /\ \A i \in 1..Len(before) :
                   ( /\ EndedBy(before[i], clock)
                     /\ Get(before[i], "type", PyNone) = "building_upgrade"
                     /\ \A j \in (i + 1)..Len(before) :
                           ~ ( /\ EndedBy(before[j], clock)
                               /\ Get(before[j], "type", PyNone)
                                      = "building_upgrade"
                               /\ before[j].building_id
                                      = before[i].building_id ) )
                   => /\ before[i].building_id
                             \in DOMAIN BuildingsOf(user_data')
                      /\ BuildingsOf(user_data')[before[i].building_id].level
                             = before[i].target_level
            /\ user_data'.last_logout_time = clock]_vars

\* a call has resolved an AnimalHusbandry entry into a ledger that had no
\* milk and a BuildingUpgrade entry, at exactly the end time of one of them
C6_Witness ==
    /\ response.completed_actions_count = 2
    /\ QueueOf(user_data) = <<>>
    /\ "milk" \in DOMAIN ResourcesOf(user_data)
    /\ "hut" \in DOMAIN BuildingsOf(user_data)
    /\ BuildingsOf(user_data)["hut"].level = 2
    /\ user_data.last_logout_time = TicksPerSecond

\* C8: a reconcile call at now keeps every entry whose end_time is > now,
\* unchanged and in the same relative order, and such an entry adds nothing
\* to the ledger or the buildings: they are what the call gives for the
\* same state without those entries.
C8_PartialDrain ==
    [][Reconcile =>
        LET Pending(entry) == EndsAfter(entry, clock)
            NotPending(entry) == ~EndsAfter(entry, clock)
            without == [last_logout_time |-> user_data.last_logout_time,
                        game_data |->
                            Put(GameDataOf(user_data), "scheduled_actions",
                                SelectSeq(QueueOf(user_data), NotPending))]
            drained == CalculateAndUpdateGameData(without, clock)
        IN  /\ SelectSeq(QueueOf(user_data'), Pending)
                   = SelectSeq(QueueOf(user_data), Pending)
            /\ ResourcesOf(user_data') = ResourcesOf(drained)
            /\ BuildingsOf(user_data') = BuildingsOf(drained)]_vars

\* a call has resolved one entry and kept a later one that had not ended
C8_Witness ==
    /\ response.completed_actions_count = 1
    /\ user_data.last_logout_time = clock
    /\ Len(QueueOf(user_data)) = 1
    /\ EndsAfter(QueueOf(user_data)[1], clock)
    /\ QueueOf(user_data)[1].action_id = 2

----------------------------------------------------------------------------
(* Claims about the server, under Spec *)

\* the step is a request to /add_actions_to_queue that was answered 200:
\* one entry was built, appended and saved
Added == nextId' = nextId + 1

\* the entry an Added step appended
NewEntry == QueueOf(db')[Len(QueueOf(db'))]

\* C3: queue chaining: the entry a successful enqueue appends starts at the
\* stored end time of the entry before it, or at now when it is appended to
\* an empty queue, whatever other parameters the request carries.
C3_QueueChaining ==
    [][Added =>
          IF Len(QueueOf(db')) > 1
          THEN NewEntry.start_time
                   = QueueOf(db')[Len(QueueOf(db')) - 1].end_time
          ELSE NewEntry.start_time = ToTimestamp(clock)]_vars

\* C4: capacity enforcement: a valid request of the registered player that
\* finds MaxQueueSize entries in the reconciled queue is answered QueueFull
\* and the stored row (so the stored queue) is left as it was.
C4_CapacityEnforced ==
    [][( /\ clock' = clock
         /\ response'.outcome \notin {"InvalidRequest", "Unauthorized"}
         /\ Len(QueueOf(CalculateAndUpdateGameData(db, clock)))
                >= MaxQueueSize )
       => (response'.outcome = "QueueFull" /\ db' = db)]_vars

\* a request was rejected for a full queue
C4_Witness ==
    /\ response.outcome = "QueueFull"
    /\ Len(QueueOf(db)) = MaxQueueSize

\* C5: bounded queue: the stored queue never holds more than MaxQueueSize
\* entries.
C5_QueueBounded == Len(QueueOf(db)) <= MaxQueueSize

\* the queue is full again after an entry was resolved and a further
\* enqueue succeeded
C5_Witness ==
    /\ Len(QueueOf(db)) = MaxQueueSize
    /\ nextId > MaxQueueSize
    /\ response.outcome = "Added"

\* what the catalog says the entries of queue that are no longer in kept
\* produce of resource key: quantity * per-unit output
RECURSIVE CatalogOutput(_, _, _)
CatalogOutput(queue, kept, key) ==
    IF queue = <<>> THEN 0
    ELSE LET entry == Head(queue)
             area == AreasDetail[entry.name]
         IN  (IF entry.action_id \notin Ids(kept)
                 /\ area.product.resource = key
              THEN (entry.duration \div area.time) * area.product.amount
              ELSE 0)
             + CatalogOutput(Tail(queue), kept, key)

\* C7: enqueue then reconcile: an entry appended by a successful enqueue is
\* resolved by the first reconcile call at or after its end time: it leaves
\* the queue and the ledger gains quantity * per-unit output of the catalog
\* action, whatever other parameters the request carried.
C7_EnqueueThenReconcile ==
    [][Added =>
          /\ \A i \in 1..Len(QueueOf(db)) :
                 EndedBy(QueueOf(db)[i], clock)
                     => QueueOf(db)[i].action_id \notin Ids(QueueOf(db'))
          /\ \A key \in {"iron", "wheat"} :
                 Get(ResourcesOf(db'), key, 0) =
                     Get(ResourcesOf(db), key, 0)
                     + CatalogOutput(QueueOf(db), QueueOf(db'), key)]_vars

\* C9: entry timing: the entry a successful enqueue appends has
\* end = start + unit time * quantity and end > start, whatever other
\* parameters the request carries.
C9_EntryTiming ==
    [][Added =>
          /\ NewEntry.end_time =
                 NewEntry.start_time
                 + AreasDetail[response'.action_name].time
                   * response'.added_count
          /\ NewEntry.end_time > NewEntry.start_time]_vars

\* requests of the registered player with a quantity that is no positive
\* integer or an action name the catalog does not hold
InvalidRequests ==
    { data \in Requests :
        /\ data.username = DbUsername
        /\ data.user_id = DbUserId
        /\ \/ data.quantity = Null
           \/ data.quantity <= 0
           \/ data.action_name \notin DOMAIN AreasDetail }

\* C10: invalid requests: such a request is answered InvalidRequest and
\* leaves the stored row unchanged, whatever the length of the queue.
C10_InvalidRequestRejected ==
    [][\A data \in InvalidRequests, save_ok \in BOOLEAN :
          AddActionsToQueue(data, save_ok) =>
              (response'.outcome = "InvalidRequest" /\ db' = db)]_vars

\* C14: non-negative ledger: starting from the empty ledger of a newly
\* registered player, after any sequence of enqueue requests, with any
\* other parameters, every quantity in the stored resource ledger is >= 0.
C14_LedgerNonNegative ==
    \A key \in DOMAIN ResourcesOf(db) : ResourcesOf(db)[key] >= 0

----------------------------------------------------------------------------
(* Claims about the server with login, under SpecLogin *)

\* the step is a login that was answered 200
LoggedIn == response'.outcome = "LoginSuccessful" /\ clock' = clock

\* C11: reconcile before exposure: the state a successful login returns and
\* the state it leaves stored hold no queue entry whose end_time has passed
\* at the login's now (such entries were resolved and credited before).
C11_LoginReconciles ==
    [][LoggedIn =>
          /\ \A i \in 1..Len(QueueOf(response')) :
                 ~EndedBy(QueueOf(response')[i], clock)
          /\ \A i \in 1..Len(QueueOf(db')) :
                 ~EndedBy(QueueOf(db')[i], clock)]_vars

\* C12: monotonic checkpoint under a monotonic clock: with a clock that
\* never goes back, every reconciliation (each one that is saved: the
\* successful enqueues) leaves the stored checkpoint at or after the
\* checkpoint it found, whether an enqueue or a login had set that one.
C12_CheckpointMonotonic ==
    [][Added => /\ db'.last_logout_time >= db.last_logout_time
                /\ db'.last_logout_time = clock]_vars

\* a second reconciliation was saved, later than the checkpoint it found
C12_Witness ==
    /\ response.outcome = "Added"
    /\ nextId >= 2
    /\ db.last_logout_time = clock
    /\ clock > 1

----------------------------------------------------------------------------
(* More claims about calculate_and_update_game_data, under SpecReconcile *)

\* C13: the checkpoint never decreases across reconciliations, also when
\* now is earlier than the stored checkpoint.
C13_CheckpointNeverDecreases ==
    [][Reconcile =>
          user_data'.last_logout_time >= user_data.last_logout_time]_vars

\* C16: in-order resolution: a reconcile call stops at the first entry it
\* does not resolve, so no entry leaves the queue while an entry that was
\* before it in the queue stays, whatever the end times of the entries.
C16_InOrderResolution ==
    [][Reconcile =>
        LET before == QueueOf(user_data)
            after == Ids(QueueOf(user_data'))
        IN  \A i, j \in 1..Len(before) :
                (i < j /\ before[i].action_id \in after)
                    => before[j].action_id \in after]_vars

\* the entry has no end_time, or a null one
Malformed(entry) ==
    "end_time" \notin DOMAIN entry \/ entry.end_time = Null

\* C17: malformed entries are preserved: a reconcile call, at any now,
\* keeps every entry that has no end_time (or a null one), unchanged and in
\* order; such an entry adds nothing to the ledger or the buildings (they
\* are what the call gives for the same state without those entries); and
\* the entries of the same queue that ended by now are still resolved.
C17_MalformedPreserved ==
    [][Reconcile =>
        LET WellFormed(entry) == ~Malformed(entry)
            without == [last_logout_time |-> user_data.last_logout_time,
                        game_data |->
                            Put(GameDataOf(user_data), "scheduled_actions",
                                SelectSeq(QueueOf(user_data), WellFormed))]
            resolved == CalculateAndUpdateGameData(without, clock)
        IN  /\ SelectSeq(QueueOf(user_data'), Malformed)
                   = SelectSeq(QueueOf(user_data), Malformed)
            /\ SelectSeq(QueueOf(user_data'), WellFormed)
                   = QueueOf(resolved)
            /\ ResourcesOf(user_data') = ResourcesOf(resolved)
            /\ BuildingsOf(user_data') = BuildingsOf(resolved)
            /\ \A i \in 1..Len(QueueOf(user_data)) :
                   EndedBy(QueueOf(user_data)[i], clock) =>
                       QueueOf(user_data)[i].action_id
                           \notin Ids(QueueOf(user_data'))]_vars

\* a call has resolved the entry behind an entry with a null end_time and
\* kept that one
C17_Witness ==
    /\ response.completed_actions_count = 1
    /\ Len(QueueOf(user_data)) = 1
    /\ QueueOf(user_data)[1].action_id = 1
    /\ "end_time" \in DOMAIN QueueOf(user_data)[1]
    /\ QueueOf(user_data)[1].end_time = Null
    /\ user_data.last_logout_time = clock

KnownKinds == CreditKinds \cup {"building_upgrade"}

\* the entry's kind is none of the four the function handles
UnknownKind(entry) == Get(entry, "type", PyNone) \notin KnownKinds

\* C18: unknown kinds: a reconcile call at now removes every entry of an
\* unknown kind whose end_time is <= now, and such an entry changes neither
\* the ledger nor the buildings: they are what the call gives for the same
\* state without those entries.
C18_UnknownKindsRemoved ==
    [][Reconcile =>
        LET before == QueueOf(user_data)
            Other(entry) == ~(UnknownKind(entry) /\ EndedBy(entry, clock))
            without == [last_logout_time |-> user_data.last_logout_time,
                        game_data |->
                            Put(GameDataOf(user_data), "scheduled_actions",
                                SelectSeq(before, Other))]
            resolved == CalculateAndUpdateGameData(without, clock)
        IN  /\ \A i \in 1..Len(before) :
                   (UnknownKind(before[i]) /\ EndedBy(before[i], clock))
                       => before[i].action_id
                              \notin Ids(QueueOf(user_data'))
            /\ QueueOf(user_data') = QueueOf(resolved)
            /\ ResourcesOf(user_data') = ResourcesOf(resolved)
            /\ BuildingsOf(user_data') = BuildingsOf(resolved)]_vars

\* a call has resolved two entries and left the ledger without any key and
\* the state without buildings: both were of an unknown kind
C18_Witness ==
    /\ response.completed_actions_count = 2
    /\ QueueOf(user_data) = <<>>
    /\ "scheduled_actions" \in DOMAIN GameDataOf(user_data)
    /\ ResourcesOf(user_data) = EmptyDict
    /\ BuildingsOf(user_data) = EmptyDict

----------------------------------------------------------------------------
(* Claims about interleaved requests, under SpecInterleaved *)

\* the entry the 200 answer of request h reports as appended
ReportedEntry(h) ==
    response[h].game_data.scheduled_actions[response[h].total_in_queue]

\* C19: no lost enqueue under interleaving: the entry of every request
\* that was answered 200 is in the stored queue for as long as its end
\* time has not passed (before that no reconciliation can resolve it).
C19_NoLostEnqueue ==
    \A h \in Handlers :
        response[h].outcome = "Added" =>
            \/ ReportedEntry(h).action_id \in Ids(QueueOf(db))
            \/ EndedBy(ReportedEntry(h), clock)

----------------------------------------------------------------------------
(* The server for as long as the player keeps sending requests.  The ids   *)
(* of entries that left the stored queue are given out again, so that the  *)
(* number of requests is not bounded; nextId is the id given out last.     *)

\* uuid4: an id that no stored entry has
FreshId ==
    CHOOSE i \in 1..MaxEnqueues :
        /\ i \notin Ids(QueueOf(db))
        /\ \A j \in 1..(i - 1) : j \in Ids(QueueOf(db))

\* the requests the player keeps sending
LiveRequests ==
    { EnqueueData(DbUsername, DbUserId, "iron_mine", 1, params) :
        params \in {NoParams, Mining, [end_time |-> Null]} }

\* POST /add_actions_to_queue, lines 321-400
AddActionsToQueueLive(data) ==
    \E r \in {HandleAddActions(db, data, clock, clock, FreshId, TRUE)} :
        /\ response' = IF r.outcome = "Added"
                       THEN AddedResponse(data, r.user_data.game_data)
                       ELSE [status |-> r.status, outcome |-> r.outcome]
        /\ db' = IF r.outcome = "Added" THEN SavedRow(r.user_data) ELSE db
        /\ nextId' = IF r.outcome = "Added" THEN FreshId ELSE nextId
        /\ UNCHANGED <<clock, user_data>>

KeepsEnqueueing == \E data \in LiveRequests : AddActionsToQueueLive(data)

NextLive == Tick \/ KeepsEnqueueing

\* time advances (up to MaxClock) and the player keeps sending requests
SpecLive ==
    /\ Init
    /\ [][NextLive]_vars
    /\ WF_vars(Tick)
    /\ WF_vars(KeepsEnqueueing)

\* the stored queue holds the entry with this id
Stored(id) == id \in Ids(QueueOf(db))

\* the stored queue holds the entry with this id, and the entry does not
\* end after the last time the clock reaches
StoredToDrain(id) ==
    \E i \in 1..Len(QueueOf(db)) :
        /\ QueueOf(db)[i].action_id = id
        /\ ~EndsAfter(QueueOf(db)[i], MaxClock)

\* C20: eventual drain: while time advances and the player keeps sending
\* enqueue requests, every entry a successful enqueue stored leaves the
\* stored queue at some later time, whatever other parameters the request
\* carried (entries that end after MaxClock are left out: the clock of the
\* model stops there).
C20_EventualDrain ==
    \A id \in 1..MaxEnqueues : StoredToDrain(id) ~> ~Stored(id)

====
